---- MODULE Spec2Model ----
(***************************************************************************)
(* Model of find_large_files.py: threshold conversion, the os.walk scan of *)
(* main, and LargeFilesOutputHandler (store resolution, file handle,       *)
(* plain/CSV/table rendering).                                             *)
(*                                                                         *)
(* A Python str is a sequence of one-character strings.  A byte multiplier *)
(* is a two-limb number [hi, lo] = hi * Limb + lo, because 1000^4 and      *)
(* 1024^4 do not fit the checker's integers.                               *)
(***************************************************************************)
EXTENDS Integers, Sequences, FiniteSets, TLC

VARIABLES
    args,        \* the parsed command line
    sizes,       \* the size the file system reports for each entry under args.path
    pc,          \* position of the run: start, scan, init, open, render, del, done, raised
    threshold,   \* main's threshold
    stack,       \* os.walk's directories still to list
    dirpath, dirnames, filenames,  \* the triple os.walk yielded, minus the names already checked
    large_list,  \* main's large_list
    stdout,      \* the text written to the console
    self,        \* the fields of the LargeFilesOutputHandler
    disk,        \* the output file: whether it was created, its path and content
    opens,       \* the number of open() calls made
    warned,      \* the number of warnings.warn calls made
    exc          \* the exception that left the run, or "none"

vars == <<args, sizes, pc, threshold, stack, dirpath, dirnames, filenames,
          large_list, stdout, self, disk, opens, warned, exc>>

----------------------------------------------------------------------------
(* Bounds of the model *)

\* args.size ranges over the whole-valued floats 1.0 .. MaxSizeArg in a scan
MaxSizeArg == 1
\* args.size ranges over 0.0 .. MaxUnitSize when only the conversion is applied
MaxUnitSize == 6
\* args.round ranges over 0 .. MaxRound
MaxRound == 1
\* the file write that raises OSError ranges over 1 .. MaxFailAt (or none does)
MaxFailAt == 2

----------------------------------------------------------------------------
(* Two-limb naturals *)

Limb == 1000 * 1000

Norm(h, l) == [hi |-> h + (l \div Limb), lo |-> l % Limb]

FromInt(n) == Norm(0, n)

\* b * k for a small natural k
BigTimes(b, k) == Norm(b.hi * k, b.lo * k)

BigGT(a, b) == \/ a.hi > b.hi
               \/ a.hi = b.hi /\ a.lo > b.lo

BigGE(a, b) == \/ a.hi > b.hi
               \/ a.hi = b.hi /\ a.lo >= b.lo

RECURSIVE BigPow(_, _)
BigPow(base, n) == IF n = 0 THEN FromInt(1) ELSE BigTimes(BigPow(base, n - 1), base)

----------------------------------------------------------------------------
(* Units and conversion *)

Unit == {"KB", "KiB", "MB", "MiB", "GB", "GiB", "TB", "TiB"}

BYTES_CONVERSION_LOOKUP ==
    [u \in Unit |->
        CASE u = "KB"  -> FromInt(1000)
          [] u = "KiB" -> FromInt(1024)
          [] u = "MB"  -> BigPow(1000, 2)
          [] u = "MiB" -> FromInt(1024 * 2)
          [] u = "GB"  -> BigPow(1000, 3)
          [] u = "GiB" -> BigPow(1024, 3)
          [] u = "TB"  -> BigPow(1000, 4)
          [] u = "TiB" -> BigPow(1024, 4)]

get_threshold_in_bytes(size, unit) == BigTimes(BYTES_CONVERSION_LOOKUP[unit], size)

----------------------------------------------------------------------------
(* Python str: a sequence of one-character strings *)

\* the characters the program handles, in code-point order
Ascii == <<"\n", " ", "+", ",", "-", ".", "/",
           "0", "1", "2", "3", "4", "5", "6", "7", "8", "9", ":",
           "B", "D", "F", "G", "K", "M", "N", "P", "T", "W",
           "a", "b", "c", "d", "e", "f", "g", "h", "i", "j", "k", "l", "m",
           "n", "o", "p", "r", "s", "t", "u", "v", "w", "x", "y", "z", "|">>

Ord(c) == CHOOSE i \in 1..Len(Ascii) : Ascii[i] = c

\* s < t in Python's str ordering
RECURSIVE StrLess(_, _)
StrLess(s, t) ==
    IF t = <<>> THEN FALSE
    ELSE IF s = <<>> THEN TRUE
    ELSE IF s[1] = t[1] THEN StrLess(Tail(s), Tail(t))
    ELSE Ord(s[1]) < Ord(t[1])

\* c * n
RECURSIVE Repeat(_, _)
Repeat(c, n) == IF n <= 0 THEN <<>> ELSE <<c>> \o Repeat(c, n - 1)

\* sep.join(xs)
RECURSIVE str_join(_, _)
str_join(sep, xs) ==
    IF xs = <<>> THEN <<>>
    ELSE IF Len(xs) = 1 THEN xs[1]
    ELSE xs[1] \o sep \o str_join(sep, Tail(xs))

\* s.split(c) for a one-character separator
RECURSIVE str_split(_, _)
str_split(s, c) ==
    IF \A i \in 1..Len(s) : s[i] # c THEN <<s>>
    ELSE LET k == CHOOSE i \in 1..Len(s) :
                      s[i] = c /\ \A j \in 1..(i - 1) : s[j] # c
         IN  <<SubSeq(s, 1, k - 1)>> \o str_split(SubSeq(s, k + 1, Len(s)), c)

\* s[start:] with Python's treatment of a negative start
SliceFrom(s, start) ==
    LET n == Len(s)
        b == IF start < 0 THEN (IF n + start < 0 THEN 0 ELSE n + start)
             ELSE (IF start > n THEN n ELSE start)
    IN  SubSeq(s, b + 1, n)

\* sorted(xs) for a list of str
RECURSIVE Insert(_, _)
Insert(x, xs) ==
    IF xs = <<>> THEN <<x>>
    ELSE IF StrLess(x, xs[1]) THEN <<x>> \o xs
    ELSE <<xs[1]>> \o Insert(x, Tail(xs))

RECURSIVE sorted(_)
sorted(xs) == IF xs = <<>> THEN <<>> ELSE Insert(xs[Len(xs)], sorted(SubSeq(xs, 1, Len(xs) - 1)))

Digits == <<"0", "1", "2", "3", "4", "5", "6", "7", "8", "9">>

\* str(n) for a natural n
RECURSIVE IntStr(_)
IntStr(n) == IF n < 10 THEN <<Digits[n + 1]>> ELSE IntStr(n \div 10) \o <<Digits[(n % 10) + 1]>>

\* the text up to each "\n" of a written stream
Lines(text) ==
    LET parts == str_split(text, "\n")
    IN  SubSeq(parts, 1, Len(parts) - 1)

----------------------------------------------------------------------------
(* os.path *)

os_path_join(a, b) ==
    IF b # <<>> /\ b[1] = "/" THEN b
    ELSE IF a = <<>> \/ a[Len(a)] = "/" THEN a \o b
    ELSE a \o <<"/">> \o b

RECURSIVE rstrip(_, _)
rstrip(s, c) ==
    IF s # <<>> /\ s[Len(s)] = c THEN rstrip(SubSeq(s, 1, Len(s) - 1), c) ELSE s

os_path_dirname(p) ==
    LET slashes == {i \in 1..Len(p) : p[i] = "/"}
        i == IF slashes = {} THEN 0 ELSE CHOOSE k \in slashes : \A j \in slashes : j <= k
        head == SubSeq(p, 1, i)
    IN  IF head # <<>> /\ head # Repeat("/", Len(head)) THEN rstrip(head, "/") ELSE head

----------------------------------------------------------------------------
(* get_human_readable_size *)

UnitStr(u) ==
    CASE u = "KB"  -> <<"K", "B">>
      [] u = "KiB" -> <<"K", "i", "B">>
      [] u = "MB"  -> <<"M", "B">>
      [] u = "MiB" -> <<"M", "i", "B">>
      [] u = "GB"  -> <<"G", "B">>
      [] u = "GiB" -> <<"G", "i", "B">>
      [] u = "TB"  -> <<"T", "B">>
      [] u = "TiB" -> <<"T", "i", "B">>

RECURSIVE Pow10(_)
Pow10(n) == IF n = 0 THEN 1 ELSE 10 * Pow10(n - 1)

\* n / m rounded to the nearest integer, a tie going to the even one
RoundHalfEven(n, m) ==
    LET q == n \div m
        r == n % m
    IN  IF 2 * r < m THEN q
        ELSE IF 2 * r > m THEN q + 1
        ELSE IF q % 2 = 0 THEN q ELSE q + 1

\* round(size / multiplier, round_to) as a count of 10^-round_to
round(size, mult, round_to) ==
    LET scaled == size * Pow10(round_to)
    IN  IF BigGT(mult, FromInt(2 * scaled)) THEN 0
        ELSE RoundHalfEven(scaled, mult.lo)

\* the digits after the point in str() of a float: trailing zeros dropped, one digit kept
RECURSIVE StripZeros(_)
StripZeros(ds) ==
    IF Len(ds) > 1 /\ ds[Len(ds)] = "0" THEN StripZeros(SubSeq(ds, 1, Len(ds) - 1))
    ELSE IF ds = <<>> THEN <<"0">> ELSE ds

\* str(q / 10^round_to) of a float
FloatStr(q, round_to) ==
    LET p == Pow10(round_to)
        frac == IntStr(q % p)
        padded == Repeat("0", round_to - Len(frac)) \o frac
    IN  IntStr(q \div p) \o <<".">>
          \o StripZeros(IF round_to = 0 THEN <<>> ELSE padded)

get_human_readable_size(size, unit, round_to) ==
    FloatStr(round(size, BYTES_CONVERSION_LOOKUP[unit], round_to), round_to)
      \o <<" ">> \o UnitStr(unit)

----------------------------------------------------------------------------
(* The directory tree under args.path and the --store targets *)

DirA == <<"a">>
FileB == <<"b">>
FileCC == <<"c", "c">>
FileE == <<"e">>

Roots == {<<".">>, <<"t", "t">>}

\* what os.walk lists for a directory: its subdirectories and its files
scandir(root, top) ==
    IF top = root THEN [dirs |-> <<DirA>>, files |-> <<FileB, FileCC>>]
    ELSE IF top = os_path_join(root, DirA) THEN [dirs |-> <<>>, files |-> <<FileE>>]
    ELSE [dirs |-> <<>>, files |-> <<>>]

Entries(root) ==
    {os_path_join(root, DirA), os_path_join(root, FileB), os_path_join(root, FileCC),
     os_path_join(os_path_join(root, DirA), FileE)}

EntrySizes == {1000, 1001, 1025}

os_path_getsize(p) == sizes[p]

----------------------------------------------------------------------------
(* Verbose records: a dict is the sequence of its (key, value) items *)

KeyName == <<"n", "a", "m", "e">>
KeyType == <<"t", "y", "p", "e">>
KeyRoot == <<"r", "o", "o", "t">>
KeyPath == <<"p", "a", "t", "h">>
KeySize == <<"s", "i", "z", "e">>

TypeDirectory == <<"D", "i", "r", "e", "c", "t", "o", "r", "y">>
TypeFile == <<"F", "i", "l", "e">>

Keys(d) == [i \in 1..Len(d) |-> d[i][1]]

Get(d, key) == d[CHOOSE i \in 1..Len(d) : d[i][1] = key][2]

verbose_object(name, type, root, path, size) ==
    <<<<KeyName, name>>, <<KeyType, type>>, <<KeyRoot, root>>,
      <<KeyPath, path>>, <<KeySize, size>>>>

----------------------------------------------------------------------------
(* --store targets that exist before the run *)

StoreDirs == {<<"o">>, <<"o", ".", "d">>}

StoreFiles == {<<"o", "/", "r", ".", "c", "s", "v">>,
               <<"o", "/", "r", ".", "t", "x", "t">>,
               <<"o", "/", "n", ".", "t", "x", "t">>,
               <<".", "/", "r", ".", "c", "s", "v">>,
               <<"o", ".", "d", "/", "r", ".", "t", "x", "t">>,
               <<"o", "/", "r">>}

FileNames == {<<"n">>, <<"r">>, <<"n", "n">>}

os_path_isfile(p) == p \in StoreFiles

os_path_isdir(p) == p \in StoreDirs

os_path_exists(p) == p \in StoreFiles \/ p \in StoreDirs

TypeStr(ft) == IF ft = "txt" THEN <<"t", "x", "t">> ELSE <<"c", "s", "v">>

\* lines 187-206 of LargeFilesOutputHandler.__init__: the effective output
\* path, the warnings issued and the exception raised, if any
resolve_store(file_store, file_name, file_type) ==
    LET name == file_name \o <<".">> \o TypeStr(file_type)
    IN  IF os_path_isfile(file_store) THEN
            LET parts == str_split(file_store, ".")
            IN  IF Len(parts) < 2 THEN
                    [exc |-> "IndexError", file_store |-> file_store, warnings |-> 0]
                ELSE
                    LET mismatch == parts[2] # TypeStr(file_type)
                        store == IF mismatch
                                 THEN os_path_join(os_path_dirname(file_store), name)
                                 ELSE file_store
                        renamed == str_split(store, ".")[1] # file_name
                    IN  [exc |-> "none", file_store |-> store,
                         warnings |-> (IF mismatch THEN 1 ELSE 0) + (IF renamed THEN 1 ELSE 0)]
        ELSE IF os_path_isdir(file_store) THEN
            LET store == os_path_join(file_store, name)
            IN  [exc |-> "none", file_store |-> store,
                 warnings |-> IF os_path_exists(store) THEN 1 ELSE 0]
        ELSE [exc |-> "none", file_store |-> file_store, warnings |-> 0]

----------------------------------------------------------------------------
(* LargeFilesOutputHandler.print and the renderers.  o is the state of the  *)
(* sinks: the console text, the text or the CSV rows of the open file, the  *)
(* exception raised so far, and the number of file writes that succeed      *)
(* before one raises OSError (-1: all succeed).                             *)

PyStr(s) == [kind |-> "str", val |-> s]

PyList(l) == [kind |-> "list", val |-> l]

\* " ".join(args) of print's argument tuple
JoinArgs(pargs) == str_join(<<" ">>, [i \in 1..Len(pargs) |-> pargs[i].val])

AllStr(pargs) == \A i \in 1..Len(pargs) : pargs[i].kind = "str"

\* csv.writer.writerow(x): one field per element of the iterable x
writerow(x) == IF x.kind = "str" THEN [i \in 1..Len(x.val) |-> <<x.val[i]>>] ELSE x.val

print(h, o, pargs, end) ==
    IF o.exc # "none" THEN o
    ELSE IF h.output_to = "console" THEN
        IF AllStr(pargs) THEN [o EXCEPT !.stdout = @ \o JoinArgs(pargs) \o end]
        ELSE [o EXCEPT !.exc = "TypeError"]
    ELSE IF o.left = 0 THEN [o EXCEPT !.exc = "OSError"]
    ELSE IF h.file_type = "txt" THEN
        IF AllStr(pargs)
        THEN [o EXCEPT !.text = @ \o JoinArgs(pargs) \o end, !.left = IF @ > 0 THEN @ - 1 ELSE @]
        ELSE [o EXCEPT !.exc = "TypeError"]
    ELSE IF Len(pargs) = 1
        THEN [o EXCEPT !.rows = Append(@, writerow(pargs[1])), !.left = IF @ > 0 THEN @ - 1 ELSE @]
        ELSE [o EXCEPT !.exc = "TypeError"]

NL == <<"\n">>

Banner == <<"\n", "F", "i", "l", "e", "s", " ", "a", "n", "d", " ", "D", "i", "r", "e", "c", "t", "o", "r", "i", "e", "s", " ", "f", "o", "u", "n", "d">>

Dashes == Repeat("-", 28)

Paths == <<"P", "a", "t", "h", "s">>

\* for x in items: self.print(x)
RECURSIVE print_each(_, _, _)
print_each(h, o, items) ==
    IF items = <<>> THEN o
    ELSE print_each(h, print(h, o, <<items[1]>>, NL), Tail(items))

print_without_verbose(h, o) ==
    IF h.file_type = "txt" THEN
        LET o1 == print(h, o, <<PyStr(Banner)>>, NL)
            o2 == print(h, o1, <<PyStr(Dashes)>>, NL)
        IN  print(h, o2, <<PyStr(str_join(NL, h.large_files))>>, NL)
    ELSE
        LET o1 == print(h, o, <<PyStr(Paths)>>, NL)
        IN  print_each(h, o1, [i \in 1..Len(h.large_files) |-> PyStr(h.large_files[i])])

get_headers(large_files) == sorted(Keys(large_files[1]))

\* [data[header] for header in headers]
row_values(data, headers) == [i \in 1..Len(headers) |-> Get(data, headers[i])]

Max(S) == CHOOSE m \in S : \A x \in S : x <= m

\* lines 336-340 of print_table: self.print_table_config
table_config(large_files, headers) ==
    [hd \in {headers[i] : i \in 1..Len(headers)} |->
        Max({Len(Get(large_files[i], hd)) : i \in 1..Len(large_files)})]

leading_blanks(config, header) ==
    Repeat(" ", ((config[header] + 2) \div 2) - (Len(header) \div 2))

trailing_blanks(config, header) ==
    Repeat(" ", (((config[header] + 2) \div 2) + ((config[header] % 2) + 1))
                  - Len(SliceFrom(header, (Len(header) \div 2) - 1)))

header_cell(config, header) ==
    <<"|">> \o leading_blanks(config, header) \o header \o trailing_blanks(config, header)

RECURSIVE Concat(_)
Concat(xs) == IF xs = <<>> THEN <<>> ELSE xs[1] \o Concat(Tail(xs))

get_header_line_for_table(config, headers) ==
    Concat([i \in 1..Len(headers) |-> header_cell(config, headers[i])]) \o <<"|">>

common_line(config, headers) ==
    Concat([i \in 1..Len(headers) |-> <<"+">> \o Repeat("-", config[headers[i]] + 2)])
      \o <<"+">>

\* the padding without the closing blank
data_padding_short(config, header, value) ==
    Repeat(" ", (config[header] + 2) - (Len(value) + 2))

\* the padding printed after a value (line 361-362)
data_padding(config, header, value) ==
    Repeat(" ", ((config[header] + 2) - (Len(value) + 2)) + 1)

\* for header in headers: self.print("| " + large_file[header], end=...)
RECURSIVE print_cells(_, _, _, _, _)
print_cells(h, o, config, large_file, headers) ==
    IF headers = <<>> THEN o
    ELSE LET value == Get(large_file, headers[1])
             o1 == print(h, o, <<PyStr(<<"|", " ">> \o value)>>,
                         data_padding(config, headers[1], value))
         IN  print_cells(h, o1, config, large_file, Tail(headers))

\* for large_file in self.large_files: the cells, then self.print(end="|\n")
RECURSIVE print_data(_, _, _, _, _)
print_data(h, o, config, large_files, headers) ==
    IF large_files = <<>> THEN o
    ELSE LET o1 == print_cells(h, o, config, large_files[1], headers)
             o2 == print(h, o1, <<>>, <<"|", "\n">>)
         IN  print_data(h, o2, config, Tail(large_files), headers)

print_table(h, o) ==
    LET headers == get_headers(h.large_files)
        config == table_config(h.large_files, headers)
        line == common_line(config, headers)
        o1 == print(h, o, <<PyStr(line)>>, NL)
        o2 == print(h, o1, <<PyStr(get_header_line_for_table(config, headers))>>, NL)
        o3 == print(h, o2, <<PyStr(line)>>, NL)
        o4 == print_data(h, o3, config, h.large_files, headers)
    IN  print(h, o4, <<PyStr(line)>>, NL)

print_verbose(h, o) ==
    IF h.file_type = "txt" THEN print_table(h, o)
    ELSE
        LET headers == get_headers(h.large_files)
            o1 == print(h, o, <<PyList(headers)>>, NL)
        IN  print_each(h, o1, [i \in 1..Len(h.large_files) |->
                                  PyList(row_values(h.large_files[i], headers))])

----------------------------------------------------------------------------
(* State *)

NoHandler ==
    [large_files |-> <<>>, output_to |-> "console", file_type |-> "txt",
     file_name |-> <<>>, file_store |-> <<>>, file |-> "unset",
     headers |-> <<>>, print_table_config |-> <<>>]

NoFile == [created |-> FALSE, path |-> <<>>, text |-> <<>>, rows |-> <<>>]

ScanUnits == {"KB", "KiB"}

ScanStores == {<<"o">>, <<"o", "/", "r", ".", "c", "s", "v">>, <<"o", "/", "r">>}

Rest ==
    /\ threshold = FromInt(0)
    /\ stack = <<>>
    /\ dirpath = <<>>
    /\ dirnames = <<>>
    /\ filenames = <<>>
    /\ stdout = <<>>
    /\ self = NoHandler
    /\ disk = NoFile
    /\ opens = 0
    /\ warned = 0
    /\ exc = "none"

Init ==
    /\ args \in [size : 1..MaxSizeArg, unit : ScanUnits, output : {"console", "file"},
                 file_type : {"txt", "csv"}, file_name : {<<"n">>}, store : ScanStores,
                 round : 0..MaxRound, verbose : BOOLEAN, path : Roots]
    /\ sizes \in [Entries(args.path) -> EntrySizes]
    /\ pc = "start"
    /\ large_list = <<>>
    /\ Rest

----------------------------------------------------------------------------
(* main *)

\* line 376
main_threshold ==
    /\ pc = "start"
    /\ threshold' = get_threshold_in_bytes(args.size, args.unit)
    /\ stack' = <<args.path>>
    /\ pc' = "scan"
    /\ UNCHANGED <<args, sizes, dirpath, dirnames, filenames, large_list, stdout,
                   self, disk, opens, warned, exc>>

\* line 379: os.walk yields the next directory, top-down; its subdirectories
\* are listed next, in order, before the directories already waiting
os_walk ==
    /\ pc = "scan"
    /\ dirnames = <<>> /\ filenames = <<>>
    /\ stack # <<>>
    /\ LET top == Head(stack)
           listing == scandir(args.path, top)
       IN  /\ dirpath' = top
           /\ dirnames' = listing.dirs
           /\ filenames' = listing.files
           /\ stack' = [i \in 1..Len(listing.dirs) |-> os_path_join(top, listing.dirs[i])]
                         \o Tail(stack)
    /\ UNCHANGED <<args, sizes, pc, threshold, large_list, stdout, self, disk, opens,
                   warned, exc>>

\* the comparison with >= in place of >
is_large_or_equal(size) == BigGE(FromInt(size), threshold)

\* lines 384 and 401: size > threshold
is_large(size) == BigGT(FromInt(size), threshold)

\* lines 381-395, one iteration
main_check_dir ==
    /\ pc = "scan"
    /\ dirnames # <<>>
    /\ LET dirname == Head(dirnames)
           dir_path == os_path_join(dirpath, dirname)
           dir_size == os_path_getsize(dir_path)
       IN  large_list' =
               IF is_large(dir_size) THEN
                   IF ~args.verbose THEN Append(large_list, dir_path)
                   ELSE Append(large_list,
                               verbose_object(dirname, TypeDirectory, dirpath, dir_path,
                                   get_human_readable_size(dir_size, args.unit, args.round)))
               ELSE large_list
    /\ dirnames' = Tail(dirnames)
    /\ UNCHANGED <<args, sizes, pc, threshold, stack, dirpath, filenames, stdout, self,
                   disk, opens, warned, exc>>

\* a file checked while directories of the level are still waiting
main_check_file_early ==
    /\ pc = "scan"
    /\ filenames # <<>>
    /\ LET filename == Head(filenames)
           file_path == os_path_join(dirpath, filename)
           file_size == os_path_getsize(file_path)
       IN  large_list' =
               IF is_large(file_size) THEN
                   IF ~args.verbose THEN Append(large_list, file_path)
                   ELSE Append(large_list,
                               verbose_object(filename, TypeFile, dirpath, file_path,
                                   get_human_readable_size(file_size, args.unit, args.round)))
               ELSE large_list
    /\ filenames' = Tail(filenames)
    /\ UNCHANGED <<args, sizes, pc, threshold, stack, dirpath, dirnames, stdout, self,
                   disk, opens, warned, exc>>

\* lines 398-412, one iteration; the files come after all the directories
main_check_file ==
    /\ pc = "scan"
    /\ dirnames = <<>>
    /\ filenames # <<>>
    /\ LET filename == Head(filenames)
           file_path == os_path_join(dirpath, filename)
           file_size == os_path_getsize(file_path)
       IN  large_list' =
               IF is_large(file_size) THEN
                   IF ~args.verbose THEN Append(large_list, file_path)
                   ELSE Append(large_list,
                               verbose_object(filename, TypeFile, dirpath, file_path,
                                   get_human_readable_size(file_size, args.unit, args.round)))
               ELSE large_list
    /\ filenames' = Tail(filenames)
    /\ UNCHANGED <<args, sizes, pc, threshold, stack, dirpath, dirnames, stdout, self,
                   disk, opens, warned, exc>>

SummaryLine(size, unit, count) ==
    <<"T", "o", "t", "a", "l", " ", "N", "u", "m", "b", "e", "r", " ", "o", "f", " ", "f", "i", "l", "e", "s", " ", "l", "a", "r", "g", "e", "r", " ", "t", "h", "a", "n", " ">>
      \o FloatStr(size, 0) \o <<" ">> \o UnitStr(unit) \o <<":", " ">> \o IntStr(count)

\* the summary without the test of line 415
main_summary_unguarded ==
    /\ pc = "scan"
    /\ dirnames = <<>> /\ filenames = <<>> /\ stack = <<>>
    /\ stdout' = stdout \o SummaryLine(args.size, args.unit, Len(large_list)) \o NL
    /\ pc' = "init"
    /\ UNCHANGED <<args, sizes, threshold, stack, dirpath, dirnames, filenames,
                   large_list, self, disk, opens, warned, exc>>

\* lines 414-415
main_summary ==
    /\ pc = "scan"
    /\ dirnames = <<>> /\ filenames = <<>> /\ stack = <<>>
    /\ stdout' = stdout \o SummaryLine(args.size, args.unit, Len(large_list)) \o NL
    /\ pc' = IF Len(large_list) # 0 THEN "init" ELSE "done"
    /\ UNCHANGED <<args, sizes, threshold, stack, dirpath, dirnames, filenames,
                   large_list, self, disk, opens, warned, exc>>

----------------------------------------------------------------------------
(* LargeFilesOutputHandler *)

\* lines 183-206
LargeFilesOutputHandler_init ==
    /\ pc = "init"
    /\ LET r == resolve_store(args.store, args.file_name, args.file_type)
       IN  /\ self' = [self EXCEPT !.large_files = large_list,
                                   !.output_to = args.output,
                                   !.file_type = args.file_type,
                                   !.file_name = args.file_name \o <<".">> \o TypeStr(args.file_type),
                                   !.file_store = r.file_store]
           /\ warned' = warned + r.warnings
           /\ exc' = r.exc
           /\ pc' = IF r.exc = "none" THEN "open" ELSE "raised"
    /\ UNCHANGED <<args, sizes, threshold, stack, dirpath, dirnames, filenames,
                   large_list, stdout, disk, opens>>

WritingLine(path) == <<"W", "r", "i", "t", "i", "n", "g", " ", "t", "o", " ", "f", "i", "l", "e", " ">> \o path \o <<".", ".", ".", ".", ".">>

\* lines 208-219
LargeFilesOutputHandler_open ==
    /\ pc = "open"
    /\ IF self.output_to = "file"
       THEN /\ stdout' = stdout \o WritingLine(self.file_store) \o NL
            /\ self' = [self EXCEPT !.file = "open"]
            /\ disk' = [created |-> TRUE, path |-> self.file_store, text |-> <<>>, rows |-> <<>>]
            /\ opens' = opens + 1
       ELSE /\ self' = [self EXCEPT !.file = "None"]
            /\ UNCHANGED <<stdout, disk, opens>>
    /\ pc' = "render"
    /\ UNCHANGED <<args, sizes, threshold, stack, dirpath, dirnames, filenames,
                   large_list, warned, exc>>

\* lines 220-225: the whole rendering pass; fail_at is the file write that
\* raises OSError (0: none does)
LargeFilesOutputHandler_render ==
    /\ pc = "render"
    /\ \E fail_at \in (IF self.output_to = "file" THEN 0..MaxFailAt ELSE {0}) :
         LET o == [stdout |-> stdout, text |-> disk.text, rows |-> disk.rows,
                   exc |-> "none", left |-> fail_at - 1]
             r == IF ~args.verbose THEN print_without_verbose(self, o)
                  ELSE print_verbose(self, o)
             headers == IF args.verbose THEN get_headers(self.large_files) ELSE <<>>
         IN  /\ stdout' = r.stdout
             /\ disk' = [disk EXCEPT !.text = r.text, !.rows = r.rows]
             /\ exc' = r.exc
             /\ self' = [self EXCEPT
                           !.headers = headers,
                           !.print_table_config =
                               IF args.verbose /\ self.file_type = "txt"
                               THEN table_config(self.large_files, headers) ELSE <<>>]
             /\ pc' = IF r.exc = "none" THEN "del" ELSE "raised"
    /\ UNCHANGED <<args, sizes, threshold, stack, dirpath, dirnames, filenames,
                   large_list, opens, warned>>

\* lines 227-229: the handler is dropped as soon as the constructor returns
LargeFilesOutputHandler_del ==
    /\ pc = "del"
    /\ self' = [self EXCEPT !.file = IF @ # "None" THEN "closed" ELSE @]
    /\ pc' = "done"
    /\ UNCHANGED <<args, sizes, threshold, stack, dirpath, dirnames, filenames,
                   large_list, stdout, disk, opens, warned, exc>>

Next ==
    \/ main_threshold
    \/ os_walk
    \/ main_check_dir
    \/ main_check_file
    \/ main_summary
    \/ LargeFilesOutputHandler_init
    \/ LargeFilesOutputHandler_open
    \/ LargeFilesOutputHandler_render
    \/ LargeFilesOutputHandler_del

Spec == Init /\ [][Next]_vars

----------------------------------------------------------------------------
(* The conversion alone: every unit, sizes 0.0 .. MaxUnitSize *)

InitUnits ==
    /\ args \in [size : 0..MaxUnitSize, unit : Unit, output : {"console"},
                 file_type : {"txt"}, file_name : {<<"n">>}, store : {<<"o">>},
                 round : {0}, verbose : {FALSE}, path : {<<".">>}]
    /\ sizes = [e \in Entries(args.path) |-> 1000]
    /\ pc = "start"
    /\ large_list = <<>>
    /\ Rest

NextUnits == main_threshold

SpecUnits == InitUnits /\ [][NextUnits]_vars

(* The store resolution alone: the handler is constructed, after a scan     *)
(* that found ./b, for every --store target, file name and format           *)

InitStore ==
    /\ args \in [size : {1}, unit : {"KB"}, output : {"console", "file"},
                 file_type : {"txt", "csv"}, file_name : FileNames,
                 store : StoreDirs \cup StoreFiles,
                 round : {0}, verbose : {FALSE}, path : {<<".">>}]
    /\ sizes = [e \in Entries(args.path) |->
                   IF e = os_path_join(args.path, FileB) THEN 1001 ELSE 1000]
    /\ pc = "init"
    /\ threshold = get_threshold_in_bytes(args.size, args.unit)
    /\ large_list = <<os_path_join(args.path, FileB)>>
    /\ stdout = SummaryLine(args.size, args.unit, 1) \o NL
    /\ stack = <<>>
    /\ dirpath = os_path_join(args.path, DirA)
    /\ dirnames = <<>>
    /\ filenames = <<>>
    /\ self = NoHandler
    /\ disk = NoFile
    /\ opens = 0
    /\ warned = 0
    /\ exc = "none"

NextStore == LargeFilesOutputHandler_init

SpecStore == InitStore /\ [][NextStore]_vars

----------------------------------------------------------------------------
(* Vocabulary of the properties *)

\* the multiplier the documentation gives each unit
Multiplier(u) ==
    CASE u = "KB"  -> BigPow(1000, 1)
      [] u = "MB"  -> BigPow(1000, 2)
      [] u = "GB"  -> BigPow(1000, 3)
      [] u = "TB"  -> BigPow(1000, 4)
      [] u = "KiB" -> BigPow(1024, 1)
      [] u = "MiB" -> BigPow(1024, 2)
      [] u = "GiB" -> BigPow(1024, 3)
      [] u = "TiB" -> BigPow(1024, 4)

Scanned == pc \notin {"start", "scan"}

SessionEnded == pc \in {"done", "raised"}

Count == Len(large_list)

\* the threshold as a number of bytes (it fits one limb in a scan)
ThresholdBytes == (threshold.hi * Limb) + threshold.lo

\* the path a scan record stands for
PathOf(x) == IF args.verbose THEN Get(x, KeyPath) ELSE x

Occurrences(e) == Cardinality({i \in 1..Count : PathOf(large_list[i]) = e})

\* the entries in the order the tree is walked: each level top-down, the
\* subdirectories of a level before its files
WalkOrder(root) ==
    <<os_path_join(root, DirA), os_path_join(root, FileB), os_path_join(root, FileCC),
      os_path_join(os_path_join(root, DirA), FileE)>>

RECURSIVE Qualifying(_)
Qualifying(paths) ==
    IF paths = <<>> THEN <<>>
    ELSE IF sizes[paths[1]] > ThresholdBytes
         THEN <<paths[1]>> \o Qualifying(Tail(paths))
         ELSE Qualifying(Tail(paths))

\* the lines of the detailed output, on the console (after the summary line)
\* or in the output file
DetailLines ==
    IF args.output = "file" THEN Lines(disk.text) ELSE Tail(Lines(stdout))

\* the rows of the detailed output: the rows written to the CSV file, or the
\* comma-separated fields of each console line
DetailRows ==
    IF args.output = "file" THEN disk.rows
    ELSE [i \in 1..Len(DetailLines) |-> str_split(DetailLines[i], ",")]

----------------------------------------------------------------------------
(* Properties *)

\* C1: for every unit and every size, get_threshold_in_bytes(size, unit) is
\* size times the unit's multiplier: 1000^n for KB, MB, GB, TB and 1024^n for
\* KiB, MiB, GiB, TiB (n = 1, 2, 3, 4).
C1_ThresholdIsSizeTimesMultiplier ==
    pc = "scan" => threshold = BigTimes(Multiplier(args.unit), args.size)

\* C2: after the scan, an entry is in the result list exactly once if its
\* size is strictly greater than the threshold in bytes and not at all
\* otherwise (a size equal to the threshold is excluded), for files and
\* directories, verbose or not; and the list holds nothing else.
C2_ScanFilterIsStrict ==
    Scanned =>
        /\ \A e \in Entries(args.path) :
               Occurrences(e) = IF sizes[e] > ThresholdBytes THEN 1 ELSE 0
        /\ \A i \in 1..Count : PathOf(large_list[i]) \in Entries(args.path)

\* a finished verbose scan that met a directory exactly at the threshold
\* (left out) and a file one byte over it (reported)
C2_Witness ==
    /\ pc = "done"
    /\ args.verbose
    /\ sizes[os_path_join(args.path, DirA)] = ThresholdBytes
    /\ sizes[os_path_join(args.path, FileB)] = ThresholdBytes + 1
    /\ Occurrences(os_path_join(args.path, DirA)) = 0
    /\ Occurrences(os_path_join(args.path, FileB)) = 1

\* the summary line of the run
ExpectedSummary == SummaryLine(args.size, args.unit, Count)

SummaryCount ==
    Cardinality({i \in 1..Len(Lines(stdout)) : Lines(stdout)[i] = ExpectedSummary})

\* C3: the summary line is printed exactly once, with the number of scan
\* records, before any detailed output; until then nothing is written and no
\* handler exists; with zero records the handler is never constructed, nothing
\* is rendered and no output file is opened or created.
C3_SummaryOnceBeforeOutput ==
    /\ ~Scanned => /\ stdout = <<>>
                   /\ self = NoHandler
                   /\ ~disk.created
                   /\ opens = 0
    /\ Scanned => /\ Lines(stdout)[1] = ExpectedSummary
                  /\ SummaryCount = 1
    /\ (Scanned /\ Count = 0) => /\ pc = "done"
                                 /\ stdout = ExpectedSummary \o NL
                                 /\ self = NoHandler
                                 /\ ~disk.created
                                 /\ opens = 0

\* a finished run that found nothing and printed its summary
C3_Witness ==
    /\ pc = "done"
    /\ Count = 0
    /\ stdout = ExpectedSummary \o NL

\* C4: in non-verbose CSV mode with N qualifying entries, on the console or
\* in the file, a completed render leaves exactly N+1 rows: the header row
\* whose single field is Paths, then one row per entry whose single field is
\* the entry's full path.
C4_NonVerboseCsvRows ==
    (pc = "done" /\ ~args.verbose /\ args.file_type = "csv" /\ Count > 0) =>
        /\ Len(DetailRows) = Count + 1
        /\ DetailRows[1] = <<Paths>>
        /\ \A i \in 1..Count : DetailRows[i + 1] = <<large_list[i]>>

\* the field names of a verbose record, alphabetically
ColumnOrder == <<KeyName, KeyPath, KeyRoot, KeySize, KeyType>>

\* C5: in verbose CSV mode with a non-empty record list, on the console or
\* in the file, the render session (its store path resolved, no write
\* failing) ends without error, having written the alphabetically sorted
\* field names as header row and then one row per record with the values in
\* header order, every row as long as the header row.
C5_VerboseCsvRows ==
    (SessionEnded /\ args.verbose /\ args.file_type = "csv" /\ Count > 0
        /\ exc \notin {"IndexError", "OSError"}) =>
        /\ exc = "none"
        /\ Len(DetailRows) = Count + 1
        /\ DetailRows[1] = ColumnOrder
        /\ \A i \in 1..Count :
               /\ Len(DetailRows[i + 1]) = Len(DetailRows[1])
               /\ \A c \in 1..Len(ColumnOrder) :
                      DetailRows[i + 1][c] = Get(large_list[i], ColumnOrder[c])

\* the extension of a path: what follows the last dot of its last component
Basename(p) == LET parts == str_split(p, "/") IN parts[Len(parts)]

HasExtension(p) == Len(str_split(Basename(p), ".")) > 1

Extension(p) == LET parts == str_split(Basename(p), ".") IN parts[Len(parts)]

TargetName == args.file_name \o <<".">> \o TypeStr(args.file_type)

\* C6: once the handler has resolved its output target: (a) a store path that
\* is a directory gives <dir>/<fileName>.<format>; (b) a store path that is a
\* file with the configured format as extension is kept unchanged; (c) a file
\* with another or no extension gives <dirname(store)>/<fileName>.<format>
\* with a warning; never an exception, also with a dot in a directory
\* component or a leading "./".
C6_StoreResolution ==
    pc \in {"open", "raised"} =>
        /\ exc = "none"
        /\ os_path_isdir(args.store) =>
               self.file_store = os_path_join(args.store, TargetName)
        /\ (os_path_isfile(args.store) /\ HasExtension(args.store)
              /\ Extension(args.store) = TypeStr(args.file_type)) =>
               self.file_store = args.store
        /\ (os_path_isfile(args.store)
              /\ ~(HasExtension(args.store)
                     /\ Extension(args.store) = TypeStr(args.file_type))) =>
               /\ self.file_store = os_path_join(os_path_dirname(args.store), TargetName)
               /\ warned > 0

\* C7: a render session opens at most one file handle, and none when the
\* output goes to the console; when the session has ended, by returning or by
\* raising, no handle is left open.
C7_HandleReleased ==
    /\ opens <= 1
    /\ args.output = "console" => opens = 0
    /\ SessionEnded => self.file # "open"

\* C8: in non-verbose text mode with N qualifying entries, the detailed
\* output of a completed run is the banner (an empty line, "Files and
\* Directories found", the dash line) and then exactly N lines, the full
\* paths of the qualifying entries in scan order: top-down, and in each
\* directory the subdirectories before the files.
C8_NonVerboseTextLines ==
    (pc = "done" /\ ~args.verbose /\ args.file_type = "txt" /\ Count > 0) =>
        /\ Len(DetailLines) = Count + 3
        /\ DetailLines[1] = <<>>
        /\ DetailLines[2] = Tail(Banner)
        /\ DetailLines[3] = Repeat("-", 28)
        /\ SubSeq(DetailLines, 4, Count + 3) = Qualifying(WalkOrder(args.path))

\* a completed non-verbose text run that listed the directory, a file beside
\* it and the file inside it
C8_Witness ==
    /\ pc = "done"
    /\ ~args.verbose
    /\ args.file_type = "txt"
    /\ Count >= 3
    /\ Occurrences(os_path_join(args.path, DirA)) = 1
    /\ Occurrences(os_path_join(args.path, FileCC)) = 1
    /\ Occurrences(os_path_join(os_path_join(args.path, DirA), FileE)) = 1
    /\ Len(DetailLines) = Count + 3

\* the length of the longest value of a column, header text not counted
ColumnWidth(c) ==
    CHOOSE w \in {Len(Get(large_list[i], c)) : i \in 1..Count} :
        \A i \in 1..Count : Len(Get(large_list[i], c)) <= w

TableDone == pc = "done" /\ args.verbose /\ args.file_type = "txt" /\ Count > 0

\* the cells of a table line: the text between its "|" frames
Cells(line) == LET parts == str_split(line, "|") IN SubSeq(parts, 2, Len(parts) - 1)

\* cell is the header text between l leading and t trailing blanks
Centered(cell, header) ==
    \E l \in 0..Len(cell) : \E t \in 0..Len(cell) :
        /\ cell = Repeat(" ", l) \o header \o Repeat(" ", t)
        /\ l - t \in {-1, 0, 1}

\* C9: in the verbose text table, for every column, the header cell between
\* its "|" frames is leading blanks, the whole header text and trailing
\* blanks, exactly width + 2 characters wide (width: the longest value of
\* the column), the blanks on the two sides differing by at most one; so the
\* header line is as long as the divider lines, also when a column's longest
\* value is shorter than its header text.
C9_HeaderCells ==
    TableDone =>
        /\ Len(Cells(DetailLines[2])) = Len(ColumnOrder)
        /\ \A c \in 1..Len(ColumnOrder) :
               /\ Len(Cells(DetailLines[2])[c]) = ColumnWidth(ColumnOrder[c]) + 2
               /\ Centered(Cells(DetailLines[2])[c], ColumnOrder[c])
        /\ Len(DetailLines[2]) = Len(DetailLines[1])

\* the divider of the table
ExpectedDivider ==
    Concat([c \in 1..Len(ColumnOrder) |->
               <<"+">> \o Repeat("-", ColumnWidth(ColumnOrder[c]) + 2)]) \o <<"+">>

\* the data line of a record
ExpectedDataLine(record) ==
    Concat([c \in 1..Len(ColumnOrder) |->
               LET value == Get(record, ColumnOrder[c])
               IN  <<"|", " ">> \o value
                     \o Repeat(" ", (ColumnWidth(ColumnOrder[c]) - Len(value)) + 1)])
      \o <<"|">>

\* C10: in the verbose text table, with w(c) the longest value of column c:
\* each divider is "+" and w(c)+2 dashes per column and a closing "+"; each
\* data line is, per column in sorted header order, "| ", the value and
\* w(c) - len(value) + 1 blanks, closed by "|"; so a data line is as long as
\* the divider and has its "|" under the divider's "+".  The lines come in
\* the order divider, header, divider, one data line per record in record
\* order, divider.
C10_TableLines ==
    TableDone =>
        /\ Len(DetailLines) = Count + 4
        /\ DetailLines[1] = ExpectedDivider
        /\ DetailLines[3] = ExpectedDivider
        /\ DetailLines[Count + 4] = ExpectedDivider
        /\ \A i \in 1..Count :
               /\ DetailLines[i + 3] = ExpectedDataLine(large_list[i])
               /\ Len(DetailLines[i + 3]) = Len(DetailLines[1])
               /\ \A k \in 1..Len(DetailLines[1]) :
                      DetailLines[i + 3][k] = "|" <=> DetailLines[1][k] = "+"

\* a completed table of records from both levels of the tree, whose root
\* column holds values of different lengths
C10_Witness ==
    /\ TableDone
    /\ Count >= 2
    /\ \E i \in 1..Count : Len(Get(large_list[i], KeyRoot)) < ColumnWidth(KeyRoot)
    /\ Len(DetailLines) = Count + 4

====
